---- MODULE Spec2Model ----
(***************************************************************************)
(* Model of transcribe_only.py: the stations CSV loader, the confidence    *)
(* probe, the beam decision and the batch loop over the .wav files.        *)
(*                                                                         *)
(* Text is a sequence of one-character ASCII strings.  A log-probability   *)
(* or threshold is given in hundredths (-0.90 is -90) and stands for the   *)
(* double nearest to that decimal; doubles are kept exactly, as multiples  *)
(* of 2^-59.  Segment end times are whole seconds.                         *)
(***************************************************************************)
EXTENDS Integers, Sequences, FiniteSets, TLC

VARIABLES
    pc,          \* position in main()
    stations,    \* the stations CSV: a sequence of raw lines
    lineNo,      \* number of lines of the CSV consumed by load_station_meta
    meta,        \* dict name -> <<lang, cc>>
    fs,          \* the directory: file name -> content
    args,        \* parsed command line (argparse namespace)
    env,         \* module level defaults read from the environment
    wavs,        \* sorted(out_dir.glob("*.wav")), taken once
    i,           \* enumerate(wavs, 1) index of the current file
    taken,       \* probe_confidence: segments consumed so far (until the full call)
    elapsed,     \* probe_confidence: last segment end seen (until the full call)
    calls,       \* model.transcribe calls of the current file: <<kind, beam_size>>
    conf,        \* probe result of the current file
    chosen_beam, \* beam chosen for the current file
    path,        \* "fallback" or "greedy": the branch taken for the current file
    text,        \* full_transcribe result of the current file
    log,         \* filesystem and service effects of the run, in order
    exit         \* process exit status ("none" while running)

vars == <<pc, stations, lineNo, meta, fs, args, env, wavs, i, taken, elapsed,
          calls, conf, chosen_beam, path, text, log, exit>>

\* Python's None where a text is expected: no text equals it
None == <<"None">>

----------------------------------------------------------------------------
(* Text helpers                                                            *)

Max(a, b) == IF a >= b THEN a ELSE b

\* str.isspace() on one ASCII character, the characters str.strip() removes:
\* space, \t, \n, \r, \f, the vertical tab (code 11) and the separators of
\* codes 28 to 31, the last five written as the characters themselves
IsSpace(c) == c \in {" ", "\t", "\n", "\r", "\f", "", "", "", "", ""}

RECURSIVE lstrip(_)
lstrip(s) == IF s # <<>> /\ IsSpace(Head(s)) THEN lstrip(Tail(s)) ELSE s

RECURSIVE rstrip(_)
rstrip(s) ==
    IF s # <<>> /\ IsSpace(s[Len(s)]) THEN rstrip(SubSeq(s, 1, Len(s) - 1)) ELSE s

strip(s) == rstrip(lstrip(s))

\* the printable ASCII characters, code points 32 to 126 in order (code
\* point 96 has no string here; its place is held)
AsciiChars ==
    <<" ", "!", "\"", "#", "$", "%", "&", "'", "(", ")", "*", "+",
       ",", "-", ".", "/", "0", "1", "2", "3", "4", "5", "6", "7",
       "8", "9", ":", ";", "<", "=", ">", "?", "@", "A", "B", "C",
       "D", "E", "F", "G", "H", "I", "J", "K", "L", "M", "N", "O",
       "P", "Q", "R", "S", "T", "U", "V", "W", "X", "Y", "Z", "[",
       "\\", "]", "^", "_", "(backtick)", "a", "b", "c", "d", "e", "f", "g",
       "h", "i", "j", "k", "l", "m", "n", "o", "p", "q", "r", "s",
       "t", "u", "v", "w", "x", "y", "z", "{", "|", "}", "~" >>

\* ord(c)
CharCode(c) ==
    CASE c = "\t" -> 9 [] c = "\n" -> 10 [] c = "" -> 11 [] c = "\f" -> 12
      [] c = "\r" -> 13 [] c = "" -> 28 [] c = "" -> 29 [] c = "" -> 30
      [] c = "" -> 31
      [] OTHER -> 31 + (CHOOSE k \in 1..Len(AsciiChars) : AsciiChars[k] = c)

\* str.upper() on one ASCII character: a-z go to A-Z
UpperChar(c) ==
    IF CharCode(c) >= CharCode("a") /\ CharCode(c) <= CharCode("z")
    THEN AsciiChars[CharCode(c) - 32 - 31]
    ELSE c

upper(s) == [k \in 1..Len(s) |-> UpperChar(s[k])]

startswith(s, p) == Len(s) >= Len(p) /\ SubSeq(s, 1, Len(p)) = p

endswith(s, p) == Len(s) >= Len(p) /\ SubSeq(s, Len(s) - Len(p) + 1, Len(s)) = p

RECURSIVE join(_, _)
join(sep, parts) ==
    IF parts = <<>> THEN <<>>
    ELSE IF Len(parts) = 1 THEN parts[1]
    ELSE parts[1] \o sep \o join(sep, Tail(parts))

----------------------------------------------------------------------------
(* csv.reader([s]) on one line, default dialect: delimiter ',', quotechar  *)
(* '"', doublequote, not strict.                                           *)

RECURSIVE csv_reader(_, _, _, _)
csv_reader(s, state, field, row) ==
    IF s = <<>>
    THEN IF state = "START_RECORD" THEN row ELSE Append(row, field)
    ELSE LET c == Head(s)
             r == Tail(s)
         IN CASE state \in {"START_RECORD", "START_FIELD"} ->
                    IF c = "\"" THEN csv_reader(r, "IN_QUOTED_FIELD", field, row)
                    ELSE IF c = "," THEN csv_reader(r, "START_FIELD", <<>>, Append(row, field))
                    ELSE csv_reader(r, "IN_FIELD", Append(field, c), row)
              [] state = "IN_FIELD" ->
                    IF c = "," THEN csv_reader(r, "START_FIELD", <<>>, Append(row, field))
                    ELSE csv_reader(r, "IN_FIELD", Append(field, c), row)
              [] state = "IN_QUOTED_FIELD" ->
                    IF c = "\"" THEN csv_reader(r, "QUOTE_IN_QUOTED_FIELD", field, row)
                    ELSE csv_reader(r, "IN_QUOTED_FIELD", Append(field, c), row)
              [] state = "QUOTE_IN_QUOTED_FIELD" ->
                    IF c = "\"" THEN csv_reader(r, "IN_QUOTED_FIELD", Append(field, c), row)
                    ELSE IF c = "," THEN csv_reader(r, "START_FIELD", <<>>, Append(row, field))
                    ELSE csv_reader(r, "IN_FIELD", Append(field, c), row)

----------------------------------------------------------------------------
(* load_station_meta                                                       *)

\* row = [c.strip() for c in next(csv.reader([s]))]
ParseRow(s) ==
    LET row == csv_reader(s, "START_RECORD", <<>>, <<>>)
    IN [k \in 1..Len(row) |-> strip(row[k])]

\* cc of a parsed row: the 4th column when it has exactly two characters
RowCc(row) ==
    IF Len(row) >= 4 /\ Len(row[4]) = 2 THEN upper(row[4]) ELSE <<>>

\* faulty variant of StoreGuard: the language is not looked at
StoreGuardNameOnly(name, lang) == name # <<>>

\* `if name and lang:` guard of the store
StoreGuard(name, lang) == name # <<>> /\ lang # <<>>

\* faulty variant of LoadLine: a name already in the dict keeps its first entry
LoadLineFirstWins(m, raw) ==
    LET s == strip(raw)
    IN IF s = <<>> \/ startswith(s, <<"#">>) THEN m
       ELSE LET row == ParseRow(s)
            IN IF Len(row) < 3 THEN m
               ELSE IF StoreGuard(row[1], row[3]) /\ row[1] \notin DOMAIN m
                    THEN [n \in DOMAIN m \cup {row[1]} |->
                             IF n = row[1] THEN <<row[3], RowCc(row)>> ELSE m[n]]
                    ELSE m

\* one pass of the `for raw in f` body: the dict after the line `raw`
LoadLine(m, raw) ==
    LET s == strip(raw)
    IN IF s = <<>> \/ startswith(s, <<"#">>) THEN m
       ELSE LET row == ParseRow(s)
            IN IF Len(row) < 3 THEN m
               ELSE LET name == row[1]
                        lang == row[3]
                        cc   == RowCc(row)
                    IN IF StoreGuard(name, lang)
                       THEN [n \in DOMAIN m \cup {name} |->
                                IF n = name THEN <<lang, cc>> ELSE m[n]]
                       ELSE m

RECURSIVE load_station_meta(_, _)
load_station_meta(m, lines) ==
    IF lines = <<>> THEN m
    ELSE load_station_meta(LoadLine(m, Head(lines)), Tail(lines))

EmptyMeta == [n \in {} |-> <<>>]

----------------------------------------------------------------------------
(* Defaults read from the environment (lines 9-16), in hundredths where    *)
(* they are log-probabilities.                                             *)

PROBE_SECONDS_DEFAULT == 90
THRESH_GOOD_DEFAULT   == -80
THRESH_BAD_DEFAULT    == -90
GREEDY_BEAM_DEFAULT   == 1
FALLBACK_BEAM_DEFAULT == 5

\* mean_logprob's value for an empty list, -1.5
SENTINEL == -150

----------------------------------------------------------------------------
(* Bounds of the model                                                     *)

MaxRows == 2    \* lines of a stations CSV
MaxSegs == 3    \* segments the service yields for one probe
MaxEnd  == 1    \* largest segment end time, in seconds

----------------------------------------------------------------------------
(* Doubles.  Every value here is zero or negative with magnitude in        *)
(* [2^-7, 8), so it is a whole multiple of 2^-59: a double is kept as its  *)
(* magnitude in that unit, written in five base-2^15 limbs, lowest first.  *)

LimbBase == 2^15

\* carries of a limb tuple pushed upward
Norm(t) ==
    LET v1 == t[1]
        v2 == t[2] + (v1 \div LimbBase)
        v3 == t[3] + (v2 \div LimbBase)
        v4 == t[4] + (v3 \div LimbBase)
        v5 == t[5] + (v4 \div LimbBase)
    IN <<v1 % LimbBase, v2 % LimbBase, v3 % LimbBase, v4 % LimbBase, v5>>

BigAdd(a, b) == Norm([k \in 1..5 |-> a[k] + b[k]])

BigMulSmall(a, m) == Norm([k \in 1..5 |-> a[k] * m])

BigLess(a, b) ==
    \E k \in 1..5 : a[k] < b[k] /\ \A j \in (k + 1)..5 : a[j] = b[j]

\* quotient and remainder of a limb tuple by a small divisor
BigDivSmall(a, d) ==
    LET c5 == a[5]
        c4 == (c5 % d) * LimbBase + a[4]
        c3 == (c4 % d) * LimbBase + a[3]
        c2 == (c3 % d) * LimbBase + a[2]
        c1 == (c2 % d) * LimbBase + a[1]
    IN [q |-> <<c1 \div d, c2 \div d, c3 \div d, c4 \div d, c5 \div d>>,
        r |-> c1 % d]

\* x * 2^52 in the unit 2^-59 ... as a count of units: x * 2^7 * 2^45
Scaled52(x) == Norm(<<0, 0, 0, x * 128, 0>>)

\* the spacing (in units) of the doubles around num / den: 2^k for the k
\* with 2^(52+k) <= num / den < 2^(53+k)
UlpOf(num, den) ==
    LET us == {u \in {1, 2, 4, 8, 16, 32, 64, 128, 256, 512} :
                  ~BigLess(num, Scaled52(den * u))}
    IN IF us = {} THEN 1 ELSE CHOOSE u \in us : \A w \in us : w <= u

\* num / den rounded to the nearest double, ties to the even mantissa
RoundDiv(num, den) ==
    LET u  == UlpOf(num, den)
        dv == BigDivSmall(num, den * u)
        up == \/ 2 * dv.r > den * u
              \/ 2 * dv.r = den * u /\ dv.q[1] % 2 = 1
        q  == IF up THEN BigAdd(dv.q, <<1, 0, 0, 0, 0>>) ELSE dv.q
    IN BigMulSmall(q, u)

\* float("h/100") for h <= 0: the double nearest to the decimal
FloatOf(h) == RoundDiv(Norm(<<0, 0, 0, (0 - h) * 16384, 0>>), 100)

\* the doubles of the hundredths from -3.00 to 0.00, computed once
Doubles == [h \in (0 - 300)..0 |-> FloatOf(h)]

Float(h) == IF h \in DOMAIN Doubles THEN Doubles[h] ELSE FloatOf(h)

\* x < y on two such doubles (both are zero or negative)
FloatLess(x, y) == BigLess(y, x)

----------------------------------------------------------------------------
(* mean_logprob, probe_confidence and the beam decision                    *)

\* vals: the avg_logprob of the segments that have one (a segment without
\* the attribute is a record without the field)
LogprobVals(segments) ==
    LET keep == SelectSeq(segments, LAMBDA sg : "avg_logprob" \in DOMAIN sg)
    IN [k \in 1..Len(keep) |-> keep[k].avg_logprob]

RECURSIVE FloatSum(_)
FloatSum(vals) ==
    IF vals = <<>> THEN <<0, 0, 0, 0, 0>>
    ELSE BigAdd(Float(Head(vals)), FloatSum(Tail(vals)))

\* statistics.mean(vals): the exact sum of the doubles divided by their
\* count, rounded once to a double
MeanOf(vals) == RoundDiv(FloatSum(vals), Len(vals))

\* the avg_logprob values a segment may carry, in hundredths
Logprobs == {-160, -40}

\* the means of the lists of at most MaxSegs such values, computed once
Means == [vals \in UNION {[1..n -> Logprobs] : n \in 1..MaxSegs} |-> MeanOf(vals)]

mean(vals) == IF vals \in DOMAIN Means THEN Means[vals] ELSE MeanOf(vals)

\* faulty variant of mean_logprob: an empty list gives 0.0
mean_logprob_zero(segments) ==
    LET vals == LogprobVals(segments)
    IN IF vals # <<>> THEN mean(vals) ELSE Float(0)

\* statistics.mean(vals) if vals else -1.5
mean_logprob(segments) ==
    LET vals == LogprobVals(segments)
    IN IF vals # <<>> THEN mean(vals) ELSE Float(SENTINEL)

\* getattr(seg, "end", elapsed)
SegEnd(seg, el) == IF "end" \in DOMAIN seg THEN seg.end ELSE el

\* faulty variant of ProbeBreak: the cutoff itself does not stop the probe
ProbeBreakStrict(el, cutoff) == el # 0 /\ el > cutoff

\* `if elapsed and elapsed >= cutoff: break`
ProbeBreak(el, cutoff) == el # 0 /\ el >= cutoff

\* beam_size the probe passes to model.transcribe
ProbeBeam(e) == e.GREEDY_BEAM_DEF

\* faulty variant of IsBad: a confidence equal to the threshold counts as bad
IsBadInclusive(c, a) ==
    FloatLess(c, Float(a.bad_threshold)) \/ c = Float(a.bad_threshold)

\* `if conf < args.bad_threshold` of main
IsBad(c, a) == FloatLess(c, Float(a.bad_threshold))

\* chosen_beam of main
ChosenBeam(c, a) ==
    IF IsBad(c, a) THEN Max(2, a.fallback_beam) ELSE Max(1, a.greedy_beam)

\* " ".join(s.text.strip() for s in seg_gen)
full_transcribe(segTexts) ==
    join(<<" ">>, [k \in 1..Len(segTexts) |-> strip(segTexts[k])])

----------------------------------------------------------------------------
(* Paths: glob, sort order, stem and the transcript name                   *)

RECURSIVE StrLess(_, _)
StrLess(a, b) ==
    IF b = <<>> THEN FALSE
    ELSE IF a = <<>> THEN TRUE
    ELSE IF Head(a) = Head(b) THEN StrLess(Tail(a), Tail(b))
    ELSE CharCode(Head(a)) < CharCode(Head(b))

RECURSIVE sorted(_)
sorted(S) ==
    IF S = {} THEN <<>>
    ELSE LET m == CHOOSE x \in S : \A y \in S : x = y \/ StrLess(x, y)
         IN <<m>> \o sorted(S \ {m})

WavSuffix == <<".", "w", "a", "v">>

\* out_dir.glob("*.wav")
glob_wav(names) == {n \in names : endswith(n, WavSuffix)}

\* str.rfind(".") + 1, 0 when there is no dot
RECURSIVE rfind_dot(_)
rfind_dot(n) ==
    IF n = <<>> THEN 0
    ELSE IF n[Len(n)] = "." THEN Len(n)
    ELSE rfind_dot(SubSeq(n, 1, Len(n) - 1))

\* PurePath.stem: the name without its last suffix; a leading or trailing
\* dot starts no suffix
stem(n) ==
    LET d == rfind_dot(n)
    IN IF 1 < d /\ d < Len(n) THEN SubSeq(n, 1, d - 1) ELSE n

\* datetime.now(...).strftime("%y%m%d"), computed once per run
date_str == <<"2", "6", "1", "0", "3", "0">>

Dash == <<" ", "-", " ">>

\* out_name of main
OutName(station, cc) ==
    LET cc_part == IF cc # <<>> THEN cc ELSE <<"X", "X">>
    IN date_str \o Dash \o cc_part \o Dash \o station \o Dash
         \o <<"R", "a", "d", "i", "o", ".", "t", "x", "t">>

\* meta.get(station, (None, ""))
MetaGet(m, station) == IF station \in DOMAIN m THEN m[station] ELSE <<None, <<>>>>

\* `if not lang` of main
NotLang(lang) == lang = None \/ lang = <<>>

----------------------------------------------------------------------------
(* Inputs                                                                  *)

\* what the transcription service may yield next during a probe, after a
\* segment that ended at `last` (segments come in chronological order)
Segments(last) ==
    {[end |-> e, avg_logprob |-> lp] : e \in last..MaxEnd, lp \in Logprobs}
      \cup {[end |-> e] : e \in last..MaxEnd}

\* segment texts of a full decode
DecodeOutputs ==
    { <<>>,
      << <<" ", "a">>, <<"b", " ">> >> }

Audio == <<"R", "I", "F", "F">>

FileNames ==
    { <<"a", ".", "w", "a", "v">>,
      <<"b", ".", "w", "a", "v">>,
      <<".", "w", "a", "v">>,
      <<".", "w", "a", "v", ".", "w", "a", "v">>,
      <<"a", ".", "t", "x", "t">> }

\* cells and lines of a stations CSV
Url == <<"u">>

NameCells ==
    { <<>>, <<"a">>, <<" ", "a", " ">>, <<"\"", "a", ",", "b", "\"">> }

LangCells == { <<>>, <<"f", "r">> }

CcTails == { <<>>, <<",", "n", "l">>, <<",", "n">> }

CsvLines ==
    { n \o <<",">> \o Url \o <<",">> \o l \o t :
        n \in NameCells, l \in LangCells, t \in CcTails }
      \cup { <<"a", ",", "u">>,
             <<"#", "a", ",", "u", ",", "f", "r">>,
             <<" ">>,
             <<"\"", "a", ",", "u", ",", "f", "r">>,
             <<"a", ",", "u", ",", "e", "n", " ", ",", "n", "l", ",", "x">>,
             <<"a", ",", "u", ",", "f", "r", ",", "\t", "n", "l", "\n">>,
             <<"b", ",", "u", ",", "d", "e", ",", "d", "e", "\n">>,
             <<"a", ",", "u", ",", "f", "r", ",", "", "n", "l">>,
             <<"", "#", "a", ",", "u", ",", "f", "r">>,
             <<"", "a", ",", "u", ",", "f", "r", "", "", "">> }

RECURSIVE SeqsUpTo(_, _)
SeqsUpTo(S, n) ==
    IF n = 0 THEN { <<>> }
    ELSE LET shorter == SeqsUpTo(S, n - 1)
         IN shorter \cup { Append(q, x) : q \in shorter, x \in S }

\* stations files of the batch runs
RunStations ==
    { <<>>,
      << <<"a", ",", "u", ",", "f", "r">> >>,
      << <<"a", ",", "u", ",", "f", "r", ",", "n", "l">>,
         <<".", "w", "a", "v", ",", "u", ",", "e", "n">> >>,
      << <<"b", ",", "u">>, <<"a", ",", "u", ",">> >> }

DefaultEnv == [GREEDY_BEAM_DEF |-> GREEDY_BEAM_DEFAULT]

DefaultArgs ==
    [probe_seconds  |-> PROBE_SECONDS_DEFAULT,
     good_threshold |-> THRESH_GOOD_DEFAULT,
     bad_threshold  |-> THRESH_BAD_DEFAULT,
     greedy_beam    |-> GREEDY_BEAM_DEFAULT,
     fallback_beam  |-> FALLBACK_BEAM_DEFAULT]

----------------------------------------------------------------------------
(* Initial states                                                          *)

InitLocals ==
    /\ pc = "load"
    /\ lineNo = 0
    /\ meta = EmptyMeta
    /\ wavs = <<>>
    /\ i = 0
    /\ taken = <<>>
    /\ elapsed = 0
    /\ calls = <<>>
    /\ conf = Float(0)
    /\ chosen_beam = 0
    /\ path = "none"
    /\ text = <<>>
    /\ log = <<>>
    /\ exit = "none"

\* batch runs: any directory, a few stations files, a short probe window
Init ==
    /\ InitLocals
    /\ stations \in RunStations
    /\ \E names \in SUBSET FileNames : fs = [n \in names |-> Audio]
    /\ env = DefaultEnv
    /\ args = [DefaultArgs EXCEPT !.probe_seconds = 1]

\* loader runs: every stations file of at most MaxRows lines
InitLoad ==
    /\ InitLocals
    /\ stations \in SeqsUpTo(CsvLines, MaxRows)
    /\ fs = [n \in {} |-> Audio]
    /\ env = DefaultEnv
    /\ args = DefaultArgs

\* policy runs: one matched and one unmatched file, every configuration
InitPolicy ==
    /\ InitLocals
    /\ stations = << <<"a", ",", "u", ",", "f", "r">> >>
    /\ fs = [n \in { <<"a", ".", "w", "a", "v">>, <<"b", ".", "w", "a", "v">> } |-> Audio]
    /\ env \in [GREEDY_BEAM_DEF : {0, 1, 3}]
    /\ args \in [probe_seconds  : {0, 1, PROBE_SECONDS_DEFAULT},
                 good_threshold : {THRESH_GOOD_DEFAULT},
                 bad_threshold  : {-160, -120, -100, THRESH_BAD_DEFAULT},
                 greedy_beam    : {0, env.GREEDY_BEAM_DEF},
                 fallback_beam  : {1, FALLBACK_BEAM_DEFAULT}]

----------------------------------------------------------------------------
(* Actions                                                                 *)

Running == exit = "none"

wav == wavs[i]

station == stem(wav)

Event(op, w, p) == [op |-> op, wav |-> w, path |-> p]

\* load_station_meta: one line of the CSV
ReadLine ==
    /\ Running
    /\ pc = "load"
    /\ lineNo < Len(stations)
    /\ meta' = LoadLine(meta, stations[lineNo + 1])
    /\ lineNo' = lineNo + 1
    /\ UNCHANGED <<pc, stations, fs, args, env, wavs, i, taken, elapsed, calls,
                   conf, chosen_beam, path, text, log, exit>>

\* lines 88-91: load_station_meta returns and main lists the .wav files;
\* with none of them it is about to return
Glob ==
    /\ Running
    /\ pc = "load"
    /\ lineNo = Len(stations)
    /\ wavs' = sorted(glob_wav(DOMAIN fs))
    /\ pc' = IF wavs' = <<>> THEN "done" ELSE "model"
    /\ UNCHANGED <<stations, lineNo, meta, fs, args, env, i, taken, elapsed, calls,
                   conf, chosen_beam, path, text, log, exit>>

\* lines 94-104: the model is built and the loop takes the first file
LoadModel ==
    /\ Running
    /\ pc = "model"
    /\ i' = 1
    /\ pc' = "lookup"
    /\ UNCHANGED <<stations, lineNo, meta, fs, args, env, wavs, taken, elapsed,
                   calls, conf, chosen_beam, path, text, log, exit>>

\* the for loop moves to the next file, or is over
NextFile ==
    IF i < Len(wavs)
    THEN pc' = "lookup" /\ i' = i + 1
    ELSE pc' = "done" /\ i' = i

\* the status the process ends with when it is leaving with status s: s, or
\* 120 when the final flush of the interpreter fails, on the standard output
\* for what lines 91-136 have printed (line 97 is printed before the model
\* is built; nothing is printed while the stations are read and the
\* directory is listed) or on the standard error for the traceback of an
\* uncaught exception (sys.exit(130) of line 142 writes none)
ExitCodes(s) == IF pc = "load" /\ s # "1" THEN {s} ELSE {s, "120"}

\* lines 92, 136 and 140: main returns and the process ends with status 0
Return ==
    /\ Running
    /\ pc = "done"
    /\ exit' \in ExitCodes("0")
    /\ UNCHANGED <<pc, stations, lineNo, meta, fs, args, env, wavs, i, taken,
                   elapsed, calls, conf, chosen_beam, path, text, log>>

\* faulty variant of Skip: `break` in place of `continue`
SkipStops ==
    /\ Running
    /\ pc = "lookup"
    /\ NotLang(MetaGet(meta, station)[1])
    /\ log' = Append(log, Event("skip", wav, <<>>))
    /\ pc' = "done"
    /\ UNCHANGED <<stations, lineNo, meta, fs, args, env, wavs, i, taken, elapsed,
                   calls, conf, chosen_beam, path, text, exit>>

\* lines 105-109: the station is not in the CSV
Skip ==
    /\ Running
    /\ pc = "lookup"
    /\ NotLang(MetaGet(meta, station)[1])
    /\ log' = Append(log, Event("skip", wav, <<>>))
    /\ NextFile
    /\ UNCHANGED <<stations, lineNo, meta, fs, args, env, wavs, taken, elapsed,
                   calls, conf, chosen_beam, path, text, exit>>

\* lines 105-107 and 59-62: the station is known, the probe calls transcribe
ProbeStart ==
    /\ Running
    /\ pc = "lookup"
    /\ ~NotLang(MetaGet(meta, station)[1])
    /\ calls' = << [kind |-> "probe", beam_size |-> ProbeBeam(env)] >>
    /\ taken' = <<>>
    /\ elapsed' = 0
    /\ log' = Append(log, Event("probe", wav, <<>>))
    /\ pc' = "probe"
    /\ UNCHANGED <<stations, lineNo, meta, fs, args, env, wavs, i, conf,
                   chosen_beam, path, text, exit>>

\* lines 63-68: one more segment is pulled from the generator
ProbePull ==
    /\ Running
    /\ pc = "probe"
    /\ Len(taken) < MaxSegs
    /\ \E seg \in Segments(elapsed) :
          /\ taken' = Append(taken, seg)
          /\ elapsed' = SegEnd(seg, elapsed)
          /\ IF ProbeBreak(elapsed', args.probe_seconds)
             THEN pc' = "decide" /\ conf' = mean_logprob(taken')
             ELSE pc' = pc /\ conf' = conf
    /\ UNCHANGED <<stations, lineNo, meta, fs, args, env, wavs, i, calls,
                   chosen_beam, path, text, log, exit>>

\* lines 63 and 68: the generator is exhausted
ProbeExhausted ==
    /\ Running
    /\ pc = "probe"
    /\ conf' = mean_logprob(taken)
    /\ pc' = "decide"
    /\ UNCHANGED <<stations, lineNo, meta, fs, args, env, wavs, i, taken, elapsed,
                   calls, chosen_beam, path, text, log, exit>>

\* faulty variant of Decide: the transcript file is opened for writing before the
\* full decode
DecideOpensOutput ==
    /\ Running
    /\ pc = "decide"
    /\ chosen_beam' = ChosenBeam(conf, args)
    /\ path' = IF IsBad(conf, args) THEN "fallback" ELSE "greedy"
    /\ LET out_name == OutName(station, MetaGet(meta, station)[2])
       IN /\ fs' = [n \in DOMAIN fs \cup {out_name} |->
                       IF n = out_name THEN <<>> ELSE fs[n]]
          /\ log' = Append(log, Event("open", wav, out_name))
    /\ pc' = "decode"
    /\ UNCHANGED <<stations, lineNo, meta, args, env, wavs, i, taken, elapsed,
                   calls, conf, text, exit>>

\* lines 114-122
Decide ==
    /\ Running
    /\ pc = "decide"
    /\ chosen_beam' = ChosenBeam(conf, args)
    /\ path' = IF IsBad(conf, args) THEN "fallback" ELSE "greedy"
    /\ pc' = "decode"
    /\ UNCHANGED <<stations, lineNo, meta, fs, args, env, wavs, i, taken, elapsed,
                   calls, conf, text, log, exit>>

\* lines 125 and 71: full_transcribe calls model.transcribe; the locals of
\* the probe are not kept any longer
FullCall ==
    /\ Running
    /\ pc = "decode"
    /\ calls' = Append(calls, [kind |-> "full", beam_size |-> chosen_beam])
    /\ taken' = <<>>
    /\ elapsed' = 0
    /\ pc' = "decoding"
    /\ UNCHANGED <<stations, lineNo, meta, fs, args, env, wavs, i,
                   conf, chosen_beam, path, text, log, exit>>

\* lines 72 and 125: the generator is consumed and the text returned
FullDecode ==
    /\ Running
    /\ pc = "decoding"
    /\ \E out \in DecodeOutputs : text' = full_transcribe(out)
    /\ log' = Append(log, Event("decode", wav, <<>>))
    /\ pc' = "write"
    /\ UNCHANGED <<stations, lineNo, meta, fs, args, env, wavs, i, taken, elapsed,
                   calls, conf, chosen_beam, path, exit>>

\* faulty variant of WriteOpen: an empty transcript is not written
WriteNoEmpty ==
    /\ Running
    /\ pc = "write"
    /\ LET out_name == OutName(station, MetaGet(meta, station)[2])
       IN IF text = <<>>
          THEN fs' = fs /\ log' = log /\ pc' = "delete"
          ELSE /\ fs' = [n \in DOMAIN fs \cup {out_name} |->
                            IF n = out_name THEN <<>> ELSE fs[n]]
               /\ log' = Append(log, Event("open", wav, out_name))
               /\ pc' = "writing"
    /\ UNCHANGED <<stations, lineNo, meta, args, env, wavs, i, taken, elapsed,
                   calls, conf, chosen_beam, path, text, exit>>

\* lines 128-131: write_text opens the transcript, which creates it or
\* empties it
WriteOpen ==
    /\ Running
    /\ pc = "write"
    /\ LET out_name == OutName(station, MetaGet(meta, station)[2])
       IN /\ fs' = [n \in DOMAIN fs \cup {out_name} |->
                       IF n = out_name THEN <<>> ELSE fs[n]]
          /\ log' = Append(log, Event("open", wav, out_name))
    /\ pc' = "writing"
    /\ UNCHANGED <<stations, lineNo, meta, args, env, wavs, i, taken, elapsed,
                   calls, conf, chosen_beam, path, text, exit>>

\* lines 131-132: write_text writes the text and closes the file. The text
\* reaches the file in one piece or in several, each piece a further part
\* of it, so that the file holds a beginning of the text until the last
\* piece is in; then the file is closed and the notice printed
WriteText ==
    /\ Running
    /\ pc = "writing"
    /\ LET out_name == OutName(station, MetaGet(meta, station)[2])
       IN \E n \in Len(fs[out_name])..Len(text) :
             /\ n > Len(fs[out_name]) \/ n = Len(text)
             /\ fs' = [fs EXCEPT ![out_name] = SubSeq(text, 1, n)]
             /\ IF n = Len(text)
                THEN /\ log' = Append(log, Event("write", wav, out_name))
                     /\ pc' = "delete"
                ELSE /\ log' = log
                     /\ pc' = pc
    /\ UNCHANGED <<stations, lineNo, meta, args, env, wavs, i, taken, elapsed,
                   calls, conf, chosen_beam, path, text, exit>>

\* lines 135-136: wav.unlink(missing_ok=True)
Delete ==
    /\ Running
    /\ pc = "delete"
    /\ fs' = [n \in DOMAIN fs \ {wav} |-> fs[n]]
    /\ log' = Append(log, Event("delete", wav, <<>>))
    /\ NextFile
    /\ UNCHANGED <<stations, lineNo, meta, args, env, wavs, taken, elapsed,
                   calls, conf, chosen_beam, path, text, exit>>

\* lines 139-142: KeyboardInterrupt anywhere in main, the last statement
\* of the loop included
Interrupt ==
    /\ Running
    /\ exit' \in ExitCodes("130")
    /\ UNCHANGED <<pc, stations, lineNo, meta, fs, args, env, wavs, i, taken,
                   elapsed, calls, conf, chosen_beam, path, text, log>>

\* an exception of WhisperModel, of model.transcribe or of its generator
\* leaves main (the call has been made when it raises)
ServiceFailure ==
    /\ Running
    /\ pc \in {"model", "probe", "decoding"}
    /\ exit' \in ExitCodes("1")
    /\ UNCHANGED <<pc, stations, lineNo, meta, fs, args, env, wavs, i, taken,
                   elapsed, calls, conf, chosen_beam, path, text, log>>

\* the last effect of the run is the unlink of a file: line 136 is next
AfterUnlink == log # <<>> /\ log[Len(log)].op = "delete"

\* an OSError leaves main and what was done before it stays done: of open
\* or of reading the stations file (lines 28-29), of print (line 97 before
\* the model is built, line 108 for a file that is skipped, line 122 after
\* the probe, line 132 after the write, line 136 after the unlink, line 91
\* without files), of open and of the write of the transcript (line 131, the
\* file keeps the pieces written) and of unlink (line 135)
IOFailure ==
    /\ Running
    /\ \/ pc \in {"load", "model", "decide", "write", "writing", "delete"}
       \/ pc = "lookup" /\ (NotLang(MetaGet(meta, station)[1]) \/ AfterUnlink)
       \/ pc = "done" /\ (wavs = <<>> \/ AfterUnlink)
    /\ exit' \in ExitCodes("1")
    /\ UNCHANGED <<pc, stations, lineNo, meta, fs, args, env, wavs, i, taken,
                   elapsed, calls, conf, chosen_beam, path, text, log>>

\* the loader on a readable stations file, up to the return of main
NextLoad == ReadLine \/ Glob \/ Return

Next ==
    \/ ReadLine
    \/ Glob
    \/ LoadModel
    \/ Skip
    \/ ProbeStart
    \/ ProbePull
    \/ ProbeExhausted
    \/ Decide
    \/ FullCall
    \/ FullDecode
    \/ WriteOpen
    \/ WriteText
    \/ Delete
    \/ Return
    \/ Interrupt
    \/ ServiceFailure
    \/ IOFailure

Spec == Init /\ [][Next]_vars

SpecLoad == InitLoad /\ [][NextLoad]_vars

SpecPolicy == InitPolicy /\ [][Next]_vars

----------------------------------------------------------------------------
(* Properties                                                              *)

\* positions of the log where operation op was done for file w
Events(op, w) == {k \in 1..Len(log) : log[k].op = op /\ log[k].wav = w}

\* the file's stem has a station record
Matched(w) == stem(w) \in DOMAIN meta

\* the run was ended by an interrupt or an exception, or its status is 120
\* before the loop was over
Aborted == exit \in {"130", "1"} \/ (exit = "120" /\ pc # "done")

\* the loop over the files is over
Completed == pc = "done"

Finished == Completed /\ exit = "0"

\* C1: a matched audio file is written at most once and deleted at most once,
\* every delete of a file comes after the write of the text of its
\* transcript, which holds the whole text when the delete is next, a file
\* that was not deleted is in the directory unchanged (also when the write
\* failed or was interrupted with a part of the text in the transcript), no
\* listed file is gone from the directory without its transcript written,
\* and when the loop is over every matched file has exactly one write, one
\* delete, is gone and its transcript is in the directory.
C1_WriteBeforeDelete ==
    \A k \in 1..Len(wavs) :
        LET w  == wavs[k]
            wr == Events("write", w)
            de == Events("delete", w)
        IN /\ Cardinality(wr) <= 1
           /\ Cardinality(de) <= 1
           /\ \A d \in de : \E x \in wr : x < d
           /\ (k = i /\ pc = "delete") =>
                 (wr # {} /\ \A x \in wr : fs[log[x].path] = text)
           /\ de = {} => (w \in DOMAIN fs /\ fs[w] = Audio)
           /\ w \notin DOMAIN fs => wr # {}
           /\ (Completed /\ Matched(w)) =>
                 /\ Cardinality(wr) = 1
                 /\ Cardinality(de) = 1
                 /\ w \notin DOMAIN fs
                 /\ \A x \in wr : log[x].path \in DOMAIN fs

C1_Witness ==
    /\ Finished
    /\ \E k \in 1..Len(wavs) :
          /\ Matched(wavs[k])
          /\ Events("delete", wavs[k]) # {}
          /\ Events("write", wavs[k]) # {}

\* C2: a listed file without a station record is never probed, decoded,
\* written or deleted and stays in the directory unchanged; it is skipped
\* once and the run goes on: when the loop is over every listed file has
\* been handled.
C2_UnmatchedUntouched ==
    pc # "load" =>
        \A k \in 1..Len(wavs) :
            LET w == wavs[k]
            IN /\ ~Matched(w) =>
                    /\ \A e \in 1..Len(log) : log[e].wav = w => log[e].op = "skip"
                    /\ w \in DOMAIN fs
                    /\ fs[w] = Audio
                    /\ Cardinality(Events("skip", w)) <= 1
               /\ Completed => Events("skip", w) \cup Events("delete", w) # {}

C2_Witness ==
    /\ Finished
    /\ \E k \in 1..Len(wavs) : \E k2 \in 1..Len(wavs) :
          /\ k < k2
          /\ ~Matched(wavs[k])
          /\ Events("skip", wavs[k]) # {}
          /\ Matched(wavs[k2])
          /\ Events("delete", wavs[k2]) # {}

\* C3: when the run is aborted while file i is probed or decoded, nothing
\* more happens; the matched files before i are gone with their transcripts
\* in the directory, file i is in the directory unchanged and no transcript
\* was opened or written for it, and the files after i are unchanged and
\* untouched.
C3_AbortLeavesRest ==
    (Aborted /\ pc \in {"probe", "decide", "decode", "decoding"}) =>
        /\ ~ENABLED Next
        /\ \A k \in 1..(i - 1) :
              Matched(wavs[k]) =>
                 /\ wavs[k] \notin DOMAIN fs
                 /\ Events("write", wavs[k]) # {}
                 /\ \A x \in Events("write", wavs[k]) : log[x].path \in DOMAIN fs
        /\ wavs[i] \in DOMAIN fs
        /\ fs[wavs[i]] = Audio
        /\ Events("open", wavs[i]) = {}
        /\ Events("write", wavs[i]) = {}
        /\ Events("delete", wavs[i]) = {}
        /\ \A k \in (i + 1)..Len(wavs) :
              /\ wavs[k] \in DOMAIN fs
              /\ fs[wavs[k]] = Audio
              /\ \A e \in 1..Len(log) : log[e].wav # wavs[k]

C3_Witness ==
    /\ Aborted
    /\ pc = "decoding"
    /\ i = 2
    /\ Len(wavs) >= 3
    /\ Matched(wavs[1])
    /\ wavs[1] \notin DOMAIN fs

\* C4: after the decision, the chosen beam is max(2, fallback_beam) when the
\* probe confidence is below the bad threshold and max(1, greedy_beam)
\* otherwise (a confidence equal to the threshold takes the greedy path), so
\* it is at least 1, at least 2 on the fallback path, and it is the beam the
\* full decode is called with.
C4_Decision ==
    pc \in {"decode", "decoding", "write", "writing", "delete"} =>
        LET below == FloatLess(conf, Float(args.bad_threshold))
        IN /\ below =>
                 /\ path = "fallback"
                 /\ chosen_beam = Max(2, args.fallback_beam)
                 /\ chosen_beam >= 2
           /\ ~below =>
                 /\ path = "greedy"
                 /\ chosen_beam = Max(1, args.greedy_beam)
           /\ chosen_beam >= 1
           /\ pc # "decode" => calls[Len(calls)] = [kind |-> "full", beam_size |-> chosen_beam]

C4_Witness ==
    /\ pc = "write"
    /\ conf = Float(args.bad_threshold)
    /\ args.greedy_beam = 0
    /\ path = "greedy"
    /\ chosen_beam = 1

\* C5: a probe that consumed no segment returns the sentinel -1.5 and the
\* run goes on; with the default bad threshold the decision for that file is
\* the fallback path.
C5_EmptyProbe ==
    (pc \in {"decide", "decode"} /\ taken = <<>>) =>
        /\ conf = Float(SENTINEL)
        /\ (pc = "decode" /\ args.bad_threshold = THRESH_BAD_DEFAULT) =>
              /\ path = "fallback"
              /\ chosen_beam >= 2

C5_Witness ==
    /\ pc = "decode"
    /\ taken = <<>>
    /\ args.bad_threshold = THRESH_BAD_DEFAULT
    /\ args.fallback_beam = 1
    /\ path = "fallback"
    /\ Running

\* the segments of `taken` before the last one
Earlier == 1..(Len(taken) - 1)

\* the confidence is the mean over exactly the segments in `taken`
ConfFromTaken ==
    LET have == SelectSeq(taken, LAMBDA sg : "avg_logprob" \in DOMAIN sg)
    IN IF have = <<>> THEN conf = Float(SENTINEL)
       ELSE conf = mean([k \in 1..Len(have) |-> have[k].avg_logprob])

\* C6 as stated: no segment is pulled after a consumed segment whose end
\* time is at or past probe_seconds, and the confidence returned is the
\* mean over the consumed segments.
C6_StopsAtCutoff ==
    pc \in {"probe", "decide"} =>
        /\ \A k \in Earlier : taken[k].end < args.probe_seconds
        /\ (taken # <<>> /\ taken[Len(taken)].end >= args.probe_seconds) => pc = "decide"
        /\ pc = "decide" => ConfFromTaken

\* C6 amended: no segment is pulled after a consumed segment whose end time
\* is non-zero and at or past probe_seconds, and the confidence returned is
\* the mean over the consumed segments.
C6_StopsAtNonzeroCutoff ==
    pc \in {"probe", "decide"} =>
        /\ \A k \in Earlier :
              ~(taken[k].end # 0 /\ taken[k].end >= args.probe_seconds)
        /\ (/\ taken # <<>>
            /\ taken[Len(taken)].end # 0
            /\ taken[Len(taken)].end >= args.probe_seconds) => pc = "decide"
        /\ pc = "decide" => ConfFromTaken

C6_Witness ==
    /\ pc = "decide"
    /\ Len(taken) = 2
    /\ Len(taken) < MaxSegs
    /\ taken[1].end = 0
    /\ taken[2].end # 0
    /\ taken[2].end = args.probe_seconds

\* the stripped text and the parsed cells of the lines of CsvLines, computed
\* once
Stripped == [l \in CsvLines |-> strip(l)]

Parsed == [l \in CsvLines |-> ParseRow(strip(l))]

\* line k of the stations file, stripped
Line(k) ==
    IF stations[k] \in DOMAIN Stripped THEN Stripped[stations[k]]
    ELSE strip(stations[k])

\* the parsed cells of line k of the stations file
Row(k) ==
    IF stations[k] \in DOMAIN Parsed THEN Parsed[stations[k]]
    ELSE ParseRow(strip(stations[k]))

\* the lines read so far that are neither blank nor comments
DataLines ==
    {k \in 1..lineNo : Line(k) # <<>> /\ ~startswith(Line(k), <<"#">>)}

\* C7 as stated: the keys of the mapping are exactly the first fields of the
\* data lines with at least three fields.
C7_EveryThreeFieldRow ==
    DOMAIN meta = {Row(k)[1] : k \in {d \in DataLines : Len(Row(d)) >= 3}}

\* C7 amended: the keys of the mapping are exactly the (trimmed) first
\* fields of the data lines with at least three fields whose first and third
\* fields are not empty; every other line contributes no entry.
C7_EveryNamedRow ==
    DOMAIN meta =
        {Row(k)[1] : k \in {d \in DataLines :
                               /\ Len(Row(d)) >= 3
                               /\ Row(d)[1] # <<>>
                               /\ Row(d)[3] # <<>>}}

C7_Witness ==
    /\ lineNo = 2
    /\ \E k \in DataLines : Len(Row(k)) >= 3 /\ Row(k)[1] # <<>> /\ Row(k)[3] = <<>>
    /\ \E k \in DataLines : Len(Row(k)) >= 3 /\ Row(k)[1] = <<"a", ",", "b">> /\ Row(k)[3] # <<>>
    /\ Cardinality(DOMAIN meta) = 1

\* the last line read so far among the lines ks
Last(ks) == CHOOSE k \in ks : \A j \in ks : j <= k

\* data lines with at least three fields that carry the name n
Carrying(n) == {k \in DataLines : Len(Row(k)) >= 3 /\ Row(k)[1] = n}

\* C8 as stated: the entry of a name is the (lang, cc) of the last line with
\* at least three fields that carries the name.
C8_LastRowWins ==
    \A n \in DOMAIN meta :
        /\ Carrying(n) # {}
        /\ meta[n] = <<Row(Last(Carrying(n)))[3], RowCc(Row(Last(Carrying(n))))>>

\* C8 amended: the entry of a name is the (lang, cc) of the last line with
\* at least three fields and a non-empty language that carries the name, no
\* error ends the run and the load goes on to the end of the file.
C8_LastRowWithLangWins ==
    /\ \A n \in DOMAIN meta :
          LET ks == {k \in Carrying(n) : Row(k)[3] # <<>>}
          IN /\ ks # {}
             /\ meta[n] = <<Row(Last(ks))[3], RowCc(Row(Last(ks)))>>
    /\ ~Aborted
    /\ pc = "load" => lineNo <= Len(stations)
    /\ pc # "load" => (Completed /\ lineNo = Len(stations))

C8_Witness ==
    /\ lineNo = 2
    /\ \E n \in DOMAIN meta :
          /\ Cardinality(Carrying(n)) = 2
          /\ \A k \in Carrying(n) : Row(k)[3] # <<>>
          /\ <<Row(1)[3], RowCc(Row(1))>> # <<Row(2)[3], RowCc(Row(2))>>

\* C9: every probe calls the transcription service with beam size 1.
C9_ProbeIsGreedy ==
    \A k \in 1..Len(calls) : calls[k].kind = "probe" => calls[k].beam_size = 1

\* C10: no two writes of a run go to the same transcript path, and a
\* finished run leaves as many transcripts as there are matched audio files.
C10_DistinctPaths ==
    /\ \A p \in 1..Len(log) : \A q \in 1..Len(log) :
          (p # q /\ log[p].op = "write" /\ log[q].op = "write")
             => log[p].path # log[q].path
    /\ Finished =>
          Cardinality({n \in DOMAIN fs : fs[n] # Audio})
             = Cardinality({k \in 1..Len(wavs) : Matched(wavs[k])})

====
